---- MODULE Spec2Model ----
(***************************************************************************)
(* fn-map: a memoizing store keyed by the type identity of a producer.     *)
(*                                                                         *)
(* RawFnStore = HashMap<TypeKey, ManuallyDealloc> + Bump arena.            *)
(* LocalFnStore wraps it in a RefCell, AtomicFnStore in a parking_lot      *)
(* RwLock.  get(producer) looks the producer's TypeKey up under the shared *)
(* guard, and on a miss runs the producer with no guard held, then takes   *)
(* the exclusive guard and calls insert_ptr.                               *)
(*                                                                         *)
(* Producers of the model (the client code of the tests and the example):  *)
(*   key 1            move || d                      (a leaf capturing d)  *)
(*   key k > 1        move || *store.get(<key k-1, capturing d>) + 1       *)
(*   rec = TRUE       the closure built by a recursive function: it calls  *)
(*                    get with the closure of the same site (same TypeKey) *)
(*                    and adds 1 to what it gets.                          *)
(***************************************************************************)
EXTENDS Integers, Sequences, FiniteSets, TLC

\* ---------------------------------------------------------------- bounds
MaxThreads == 2
NumKeys == 2
MaxData == 2
MaxResets == 1
MaxPanics == 1

Threads == 1..MaxThreads
Keys == 1..NumKeys
Data == 1..MaxData

\* The TypeKey tokens the directory can hold.
Tokens == 1..(NumKeys * MaxData)

\* The value a read of a destructed payload may yield besides the old one.
Junk == 0

\* Option::None of get_ptr, and the null cell of an absent directory entry.
None == 0

VARIABLES
    wrapper,    \* "Local" (RefCell, one thread) or "Atomic" (RwLock, threads)
    misuse,     \* the client builds closures that re-enter their own site
    alive,      \* the store has not been dropped
    map,        \* RawFnStore.map: TypeKey -> cell (the payload's address) or None
    mem,        \* RawFnStore.bump: address -> payload [val, data, drops]
    readers,    \* threads holding the shared guard (Ref / RwLockReadGuard)
    writer,     \* thread holding the exclusive guard (RefMut / RwLockWriteGuard)
    parked,     \* threads parked in RwLock::write(), waiting for the guard
    stack,      \* per thread: the get_ptr calls in progress, innermost last
    invoked,    \* per key: producer invocations since the last reset
    prev,       \* per key: producer invocations before the last reset
    returned,   \* per key: addresses get has returned since the last reset
    freed,      \* destructor-run counts of the payloads whose memory was reclaimed
    resets,     \* number of reset calls
    panics,     \* number of producer panics
    late,       \* destructor runs against memory the arena had reclaimed
    excl,       \* a &mut borrow of the store is live (get_mut is running)
    mutcall     \* the producer get_mut is running: <<key, data>>, or <<>>

vars == <<wrapper, misuse, alive, map, mem, readers, writer, parked, stack,
          invoked, prev, returned, freed, resets, panics, late, excl,
          mutcall>>

\* ------------------------------------------------------- the external crates

\* A token that tells the captured data apart.
TypeKeyOfData(k, d, rec) == k + NumKeys * (d - 1)

\* TypeKey::of_val(&key) / TypeKey::of::<F>(): the token of the closure's
\* static type; the captured data d and the flag rec are not part of it.
TypeKeyOf(k, d, rec) == k

\* An arena that hands the last allocation's address out again.
BumpAllocReuse(m) == IF Len(m) = 0 THEN 1 ELSE Len(m)

\* Bump::alloc: the new allocation's address; earlier allocations never move.
BumpAlloc(m) == Len(m) + 1

\* ptr::drop_in_place(self.0): run the destructor of the payload at a.
DropInPlace(m, a) == [m EXCEPT ![a].drops = @ + 1]

RECURSIVE DropAll(_, _)
\* Dropping a set of cells, in any order.
DropAll(m, as) ==
    IF as = {} THEN m
    ELSE LET a == CHOOSE x \in as : TRUE
         IN DropAll(DropInPlace(m, a), as \ {a})

\* ------------------------------------------------------------- RawFnStore

\* A lookup that never finds the entry.
RawGetPtrNever(m, tok) == None

\* RawFnStore::get_ptr: Some(ptr) on a hit, None on a miss.
RawGetPtr(m, tok) == m[tok]

\* An insert that forgets the displaced cell instead of dropping it.
MemAfterInsertLeak(mp, m, tok, payload) == Append(m, payload)

\* HashMap::insert(tok, cell): the displaced cell, if any, is dropped at once
\* (its Drop runs drop_in_place on the payload it points to).
MemAfterInsert(mp, m, tok, payload) ==
    LET m1 == Append(m, payload)
    IN IF mp[tok] # None THEN DropInPlace(m1, mp[tok]) ELSE m1

\* RawFnStore::insert_ptr: bump.alloc(value), map.insert(TypeKey::of::<F>(), cell).
MapAfterInsert(mp, m, tok) == [mp EXCEPT ![tok] = BumpAlloc(m)]

Cells(mp) == {mp[k] : k \in DOMAIN mp} \ {None}

\* A teardown that releases the arena before the cells are dropped.
TeardownOrderReversed == <<"bump", "map">>

\* The order of a teardown.  reset: self.map.clear(), then self.bump.reset().
\* Drop of RawFnStore: the fields in declaration order, map and then bump.
TeardownOrder == <<"map", "bump">>

RECURSIVE Teardown(_, _, _)
\* Runs the steps of a teardown on st = [mem, gone, freed, late]:
\*   "map"   every cell of the directory is dropped (drop_in_place on its
\*           payload); a destructor that runs after the arena's memory is
\*           gone is counted in late;
\*   "bump"  the arena's memory is reclaimed; freed gets the destructor-run
\*           counts the payloads have at that moment.
Teardown(steps, mp, st) ==
    IF steps = <<>> THEN st
    ELSE LET s1 ==
               IF Head(steps) = "map"
               THEN IF st.gone
                    THEN [st EXCEPT !.late = @ + Cardinality(Cells(mp))]
                    ELSE [st EXCEPT !.mem = DropAll(@, Cells(mp))]
               ELSE [st EXCEPT !.gone = TRUE,
                               !.freed = {st.mem[a].drops : a \in 1..Len(st.mem)}]
         IN Teardown(Tail(steps), mp, s1)

TornDown(mp, m) ==
    Teardown(TeardownOrder, mp, [mem |-> m, gone |-> FALSE, freed |-> {}, late |-> 0])

\* The destructor-run counts of the payloads at the moment their memory is
\* reclaimed by reset or by the drop of the store.
FreedByClear(mp, m) == TornDown(mp, m).freed

\* The destructors reset or the drop of the store run on reclaimed memory.
LateDrops(mp, m) == TornDown(mp, m).late

\* HashMap::new().
EmptyMap == [k \in Tokens |-> None]

\* A clear that leaves the entries in place.
MapAfterClearKept(mp) == mp

\* HashMap::clear(): no entry is left.
MapAfterClear(mp) == [k \in DOMAIN mp |-> None]

\* A lookup guard that outlives the lookup.
ReadersAfterLookupKept(rs, t) == rs

\* The shared guard is a temporary of the `if let` scrutinee: it is dropped
\* when the `if let` ends, before key() is invoked.
ReadersAfterLookup(rs, t) == rs \ {t}

\* A miss that takes the exclusive guard before it invokes the producer.
WriterAtProducerTaken(w, t) == t

\* The exclusive guard when key() is invoked after a miss: get_ptr has
\* acquired nothing since the lookup; write() is called after key() returned.
WriterAtProducer(w, t) == w

\* ------------------------------------------------------------ the producers

\* The get call a producer makes while it runs: <<key, data, rec>>, or <<>>.
Callee(k, d, rec) ==
    IF rec THEN <<k, d, FALSE>>
    ELSE IF k > 1 THEN <<k - 1, d, FALSE>>
    ELSE <<>>

\* Reading through a reference: a destructed payload may read as anything.
Read(m, a) == IF m[a].drops = 0 THEN {m[a].val} ELSE {m[a].val, Junk}

Frame(k, d, rec, pc) ==
    [key |-> k, data |-> d, rec |-> rec, pc |-> pc, inner |-> None,
     val |-> 0, pre |-> map]

Active == IF wrapper = "Local" THEN {1} ELSE Threads

\* No call is in progress: what a call that takes &mut self needs.
Idle == mutcall = <<>> /\ \A t \in Threads : stack[t] = <<>>

Top(t) == stack[t][Len(stack[t])]

SetTop(t, f) == [stack EXCEPT ![t][Len(stack[t])] = f]

Inc(f, k) == [f EXCEPT ![k] = @ + 1]

\* ------------------------------------------------------------------- Init

Init ==
    /\ wrapper \in {"Local", "Atomic"}
    /\ misuse \in BOOLEAN
    /\ misuse => wrapper = "Local"
    /\ alive = TRUE
    /\ map = EmptyMap
    /\ mem = <<>>
    /\ readers = {}
    /\ writer = None
    /\ parked = {}
    /\ stack = [t \in Threads |-> <<>>]
    /\ invoked = [k \in Keys |-> 0]
    /\ prev = [k \in Keys |-> 0]
    /\ returned = [k \in Keys |-> {}]
    /\ freed = {}
    /\ resets = 0
    /\ panics = 0
    /\ late = 0
    /\ excl = FALSE
    /\ mutcall = <<>>

\* ---------------------------------------------------------------- get_ptr

\* get(key) is called and self.0.read() / self.0.borrow() is acquired.
Call(t, k, d, rec) ==
    /\ alive
    /\ t \in Active
    /\ stack[t] = <<>>
    /\ rec => misuse
    /\ mutcall = <<>>
    /\ writer = None
    /\ parked = {}
    /\ readers' = readers \cup {t}
    /\ stack' = [stack EXCEPT ![t] = <<Frame(k, d, rec, "lookup")>>]
    /\ UNCHANGED <<parked, mutcall, excl, late, wrapper, misuse, alive, map, mem, writer, invoked, prev,
                   returned, freed, resets, panics>>

\* The stack of t after its innermost call has returned ptr.
Return(t, ptr) ==
    LET n == Len(stack[t])
    IN IF n = 1 THEN <<>>
       ELSE [SubSeq(stack[t], 1, n - 1) EXCEPT
                ![n - 1].pc = "resume", ![n - 1].inner = ptr]

\* RawFnStore::get_ptr under the shared guard; the guard is dropped at the
\* end of the `if let`.  A hit returns the stored pointer.
LookupHit(t) ==
    /\ stack[t] # <<>>
    /\ Top(t).pc = "lookup"
    /\ LET f == Top(t)
           tok == TypeKeyOf(f.key, f.data, f.rec)
           ptr == RawGetPtr(map, tok)
       IN /\ ptr # None
          /\ stack' = [stack EXCEPT ![t] = Return(t, ptr)]
          /\ returned' = [returned EXCEPT ![f.key] = @ \cup {ptr}]
    /\ readers' = ReadersAfterLookup(readers, t)
    /\ UNCHANGED <<parked, mutcall, excl, late, wrapper, misuse, alive, map, mem, writer, invoked, prev,
                   freed, resets, panics>>

\* A miss: the guard is dropped and key() is invoked.
LookupMiss(t) ==
    /\ stack[t] # <<>>
    /\ Top(t).pc = "lookup"
    /\ LET f == Top(t)
           tok == TypeKeyOf(f.key, f.data, f.rec)
       IN /\ RawGetPtr(map, tok) = None
          /\ stack' = SetTop(t, [f EXCEPT !.pc = "produce"])
          /\ invoked' = Inc(invoked, f.key)
    /\ readers' = ReadersAfterLookup(readers, t)
    /\ writer' = WriterAtProducer(writer, t)
    /\ UNCHANGED <<parked, mutcall, excl, late, wrapper, misuse, alive, map, mem, prev,
                   returned, freed, resets, panics>>

\* The running producer calls get on the same store.
Nest(t) ==
    /\ stack[t] # <<>>
    /\ Top(t).pc = "produce"
    /\ LET f == Top(t)
           c == Callee(f.key, f.data, f.rec)
       IN /\ c # <<>>
          /\ writer = None
          /\ parked = {}
          /\ stack' = [stack EXCEPT ![t] =
                 Append(SetTop(t, [f EXCEPT !.pc = "await"])[t],
                        Frame(c[1], c[2], c[3], "lookup"))]
    /\ readers' = readers \cup {t}
    /\ UNCHANGED <<parked, mutcall, excl, late, wrapper, misuse, alive, map, mem, writer, invoked, prev,
                   returned, freed, resets, panics>>

\* The values the producer of frame f can return.
Produced(f) ==
    IF Callee(f.key, f.data, f.rec) = <<>> THEN {f.data}
    ELSE {v + 1 : v \in Read(mem, f.inner)}

\* The producer of the innermost call of t can return, or has returned.
AtWrite(t) ==
    /\ stack[t] # <<>>
    /\ \/ Top(t).pc = "produce" /\ Callee(Top(t).key, Top(t).data, Top(t).rec) = <<>>
       \/ Top(t).pc = "resume"

\* key() returns and self.0.write() finds the lock held by readers or by a
\* writer: the thread parks.  parking_lot's RwLock is task-fair: a reader
\* that arrives while a writer is parked waits behind it.
Park(t) ==
    /\ wrapper = "Atomic"
    /\ AtWrite(t)
    /\ t \notin parked
    /\ readers # {} \/ writer # None
    /\ parked' = parked \cup {t}
    /\ \E v \in Produced(Top(t)) : stack' = SetTop(t, [Top(t) EXCEPT !.val = v])
    /\ UNCHANGED <<mutcall, excl, late, wrapper, misuse, alive, map, mem, readers,
                   writer, invoked, prev, returned, freed, resets, panics>>

\* key() returns and self.0.write() / self.0.borrow_mut() is acquired, at
\* once or after the thread was parked.
Finish(t) ==
    /\ AtWrite(t)
    /\ LET f == Top(t)
       IN /\ readers = {}
          /\ writer = None
          /\ \E v \in (IF t \in parked THEN {f.val} ELSE Produced(f)) :
                stack' = SetTop(t, [f EXCEPT !.pc = "insert", !.val = v])
    /\ writer' = t
    /\ parked' = parked \ {t}
    /\ UNCHANGED <<mutcall, excl, late, wrapper, misuse, alive, map, mem, readers, invoked, prev,
                   returned, freed, resets, panics>>

\* RawFnStore::insert_ptr under the exclusive guard; get_ptr returns its result.
Insert(t) ==
    /\ stack[t] # <<>>
    /\ Top(t).pc = "insert"
    /\ LET f == Top(t)
           tok == TypeKeyOf(f.key, f.data, f.rec)
           payload == [val |-> f.val, data |-> f.data, drops |-> 0]
           ptr == BumpAlloc(mem)
       IN /\ mem' = MemAfterInsert(map, mem, tok, payload)
          /\ map' = MapAfterInsert(map, mem, tok)
          /\ stack' = [stack EXCEPT ![t] = Return(t, ptr)]
          /\ returned' = [returned EXCEPT ![f.key] = @ \cup {ptr}]
    /\ writer' = None
    /\ UNCHANGED <<parked, mutcall, excl, late, wrapper, misuse, alive, readers, invoked, prev,
                   freed, resets, panics>>

\* The producer panics: the panic unwinds through every enclosing producer.
Panic(t) ==
    /\ stack[t] # <<>>
    /\ Top(t).pc \in {"produce", "resume"}
    /\ t \notin parked
    /\ panics < MaxPanics
    /\ panics' = panics + 1
    /\ stack' = [stack EXCEPT ![t] = <<>>]
    /\ UNCHANGED <<parked, mutcall, excl, late, wrapper, misuse, alive, map, mem, readers, writer, invoked,
                   prev, returned, freed, resets>>

\* ---------------------------------------------------------------- get_mut

\* The map after RawFnStore::get_or_insert_ptr: entry(tok).or_insert_with(..)
\* keeps an occupied entry and fills a vacant one with a new allocation.
MapAfterGetOrInsert(mp, m, tok) ==
    IF mp[tok] # None THEN mp ELSE [mp EXCEPT ![tok] = BumpAlloc(m)]

\* The arena after get_or_insert_ptr: the producer's value is allocated only
\* for a vacant entry.
MemAfterGetOrInsert(mp, m, tok, payload) ==
    IF mp[tok] # None THEN m ELSE Append(m, payload)

\* A directory whose entries are all reported vacant.
EntryVacant(mp, tok) == None

\* HashMap::entry(tok): the cell of an occupied entry, None for a vacant one.
Entry(mp, tok) == mp[tok]

\* get_mut(key) takes &mut self: no get is in progress and no reference is
\* held, and the producer cannot reach the store it is borrowed from.
\* self.0.get_mut() borrows the raw store exclusively, entry(tok) looks the
\* token up, and or_insert_with returns the cell of an occupied entry or
\* invokes the producer for a vacant one.
GetMut(k, d) ==
    /\ alive
    /\ Idle
    /\ Callee(k, d, FALSE) = <<>>
    /\ LET tok == TypeKeyOf(k, d, FALSE)
           ptr == Entry(map, tok)
       IN IF ptr # None
          THEN /\ returned' = [returned EXCEPT ![k] = @ \cup {ptr}]
               /\ UNCHANGED <<excl, mutcall, invoked>>
          ELSE /\ excl' = TRUE
               /\ mutcall' = <<k, d>>
               /\ invoked' = Inc(invoked, k)
               /\ UNCHANGED returned
    /\ UNCHANGED <<parked, late, wrapper, misuse, alive, map, mem, readers, writer, stack,
                   prev, freed, resets, panics>>

\* The producer given to get_mut returns inside or_insert_with: its value is
\* allocated, the entry is filled, and the exclusive borrow ends.
GetMutInstall ==
    /\ mutcall # <<>>
    /\ LET k == mutcall[1]
           d == mutcall[2]
           tok == TypeKeyOf(k, d, FALSE)
           payload == [val |-> d, data |-> d, drops |-> 0]
           mp == MapAfterGetOrInsert(map, mem, tok)
       IN /\ mem' = MemAfterGetOrInsert(map, mem, tok, payload)
          /\ map' = mp
          /\ returned' = [returned EXCEPT ![k] = @ \cup {mp[tok]}]
    /\ excl' = FALSE
    /\ mutcall' = <<>>
    /\ UNCHANGED <<parked, late, wrapper, misuse, alive, readers, writer, stack, invoked,
                   prev, freed, resets, panics>>

\* The producer given to get_mut panics inside or_insert_with: the vacant
\* entry is not filled.
GetMutPanic ==
    /\ mutcall # <<>>
    /\ panics < MaxPanics
    /\ panics' = panics + 1
    /\ excl' = FALSE
    /\ mutcall' = <<>>
    /\ UNCHANGED <<parked, late, wrapper, misuse, alive, map, mem, readers, writer, stack,
                   invoked, prev, returned, freed, resets>>

\* ------------------------------------------------------------ reset, drop

\* reset(&mut self): self.map.clear(); self.bump.reset().
Reset ==
    /\ alive
    /\ Idle
    /\ resets < MaxResets
    /\ resets' = resets + 1
    /\ freed' = freed \cup FreedByClear(map, mem)
    /\ map' = MapAfterClear(map)
    /\ mem' = <<>>
    /\ prev' = [k \in Keys |-> prev[k] + invoked[k]]
    /\ invoked' = [k \in Keys |-> 0]
    /\ returned' = [k \in Keys |-> {}]
    /\ late' = late + LateDrops(map, mem)
    /\ UNCHANGED <<parked, mutcall, excl, wrapper, misuse, alive, readers, writer, stack, panics>>

\* The store is dropped: the fields are dropped in declaration order, the
\* map (every cell's Drop) and then the bump.
Destroy ==
    /\ alive
    /\ Idle
    /\ alive' = FALSE
    /\ freed' = freed \cup FreedByClear(map, mem)
    /\ map' = MapAfterClear(map)
    /\ mem' = <<>>
    /\ returned' = [k \in Keys |-> {}]
    /\ late' = late + LateDrops(map, mem)
    /\ UNCHANGED <<parked, mutcall, excl, wrapper, misuse, readers, writer, stack, invoked, prev,
                   resets, panics>>

Next ==
    \/ \E t \in Threads, k \in Keys, d \in Data, rec \in BOOLEAN : Call(t, k, d, rec)
    \/ \E t \in Threads : LookupHit(t)
    \/ \E t \in Threads : LookupMiss(t)
    \/ \E t \in Threads : Nest(t)
    \/ \E t \in Threads : Park(t)
    \/ \E t \in Threads : Finish(t)
    \/ \E t \in Threads : Insert(t)
    \/ \E t \in Threads : Panic(t)
    \/ \E k \in Keys, d \in Data : GetMut(k, d)
    \/ GetMutInstall
    \/ GetMutPanic
    \/ Reset
    \/ Destroy

Spec == Init /\ [][Next]_vars

\* ------------------------------------------------- observations of a step

\* Thread t takes its lookup step (LookupHit or LookupMiss).
LookupStep(t) ==
    stack[t] # <<>> /\ Top(t).pc = "lookup" /\ stack'[t] # stack[t]

\* Thread t takes its insert step.
InsertStep(t) ==
    stack[t] # <<>> /\ Top(t).pc = "insert" /\ stack'[t] # stack[t]

\* Thread t unwinds from a panicking producer.
PanicStep(t) ==
    stack[t] # <<>> /\ Top(t).pc \in {"produce", "resume"} /\ stack'[t] = <<>>

Present(k) == map[k] # None

\* The payload the directory holds for key k.
Cell(k) == mem[map[k]]

\* One thread, no closure re-entering its own site, no producer panic.
Sequential == wrapper = "Local" /\ ~misuse /\ panics = 0

\* ------------------------------------------------------------------ claims

\* C1: AtomicFnStore, concurrent coalesce.  When several threads call get
\* with producers of one identity, all of these calls return the same
\* address: between two resets get returns at most one address per identity
\* (a thread that lost the race adopts the installed pointer).
C1_CoalesceSameAddress ==
    wrapper = "Atomic" => \A k \in Keys : Cardinality(returned[k]) <= 1

\* C2: reference validity.  The payload at an address get has returned is
\* not destructed before the next reset or the drop of the store (stated for
\* clients whose producers never re-enter their own identity).
C2_ReturnedStaysLive ==
    ~misuse => \A k \in Keys : \A a \in returned[k] : mem[a].drops = 0

\* C3: idempotence.  In a sequence of gets on one thread with no reset in
\* between (producers may nest gets for other identities), every get for an
\* identity returns the same address and its producer is invoked at most
\* once; a get whose identity is present does not invoke its producer, leaves
\* the directory and the arena unchanged and returns the installed address.
C3_Idempotent ==
    /\ [](Sequential =>
            \A k \in Keys : Cardinality(returned[k]) <= 1 /\ invoked[k] <= 1)
    /\ [][Sequential =>
            \A t \in Threads :
                (LookupStep(t) /\ Present(Top(t).key)) =>
                    /\ UNCHANGED <<map, mem, invoked>>
                    /\ returned'[Top(t).key] = {map[Top(t).key]}]_vars

\* A producer's nested get hit an identity installed before the outer call
\* began, and got the address the earlier get had returned.
C3_Witness ==
    /\ Sequential
    /\ \E t \in Threads :
          /\ stack[t] # <<>>
          /\ Top(t).pc = "resume"
          /\ Top(t).key = 2
          /\ Top(t).pre[1] # None
          /\ Top(t).inner = map[1]
          /\ returned[1] = {map[1]}
          /\ invoked[1] = 1

\* The frame of thread t is one whose producer nests a get for another
\* identity, and t installs its value.
OuterInstalls(t) ==
    /\ InsertStep(t)
    /\ Callee(Top(t).key, Top(t).data, Top(t).rec) # <<>>
    /\ Callee(Top(t).key, Top(t).data, Top(t).rec)[1] # Top(t).key

\* What C4 says of the step in which thread t installs the outer identity q
\* whose producer called get for p: p is already installed, q's installed
\* value is the one computed from p's installed value, and both are present
\* afterwards.
ReentrantInstall(t) ==
    LET q == Top(t).key
        p == Callee(Top(t).key, Top(t).data, Top(t).rec)[1]
    IN /\ Present(p)
       /\ map'[q] # None
       /\ map'[p] # None
       /\ mem'[map'[q]].val = Cell(p).val + 1

\* C4: reentrancy.  When the producer of q calls get for a different
\* identity p, the cell of p is installed before the cell of q, q's installed
\* value is computed from p's installed value, and both are present when the
\* outer get returns.
C4_Reentrancy ==
    [][\A t \in Threads : OuterInstalls(t) => ReentrantInstall(t)]_vars

\* The same on one thread (LocalFnStore, or AtomicFnStore never shared).
C4_ReentrancyOneThread ==
    [][wrapper = "Local" =>
          \A t \in Threads : OuterInstalls(t) => ReentrantInstall(t)]_vars

\* C5: order independence.  With p the leaf producer capturing d (key 1) and
\* q the producer that calls get(p) and adds 1 (key 2), once both have been
\* requested on one thread, in either order, the store holds d for p and
\* d + 1 for q and p's producer has been invoked exactly once.
C5_OrderIndependent ==
    \A d \in Data :
        ( /\ Sequential
          /\ Present(1) /\ Present(2)
          /\ Cell(1).data = d /\ Cell(2).data = d )
        => ( /\ Cell(1).val = d
             /\ Cell(2).val = d + 1
             /\ invoked[1] = 1
             /\ invoked[2] = 1 )

\* get(q) has installed p and q, and get(p) is now requested.
C5_Witness ==
    /\ Sequential
    /\ Present(1) /\ Present(2)
    /\ Cell(1).data = 1 /\ Cell(2).data = 1
    /\ Cell(1).val = 1 /\ Cell(2).val = 2
    /\ invoked[1] = 1
    /\ stack[1] # <<>>
    /\ Top(1).key = 1 /\ Top(1).data = 1 /\ Top(1).pc = "lookup"
    /\ Len(stack[1]) = 1

\* C6: reset effect.  reset leaves the directory and the arena empty
\* whatever they held; afterwards a get whose identity is absent invokes its
\* producer again and installs a cell, so on one thread every present
\* identity was produced exactly once since the reset, and populate, reset,
\* get invokes the producer exactly twice in total.
C6_ResetEffect ==
    /\ [][resets' # resets =>
            /\ \A k \in Tokens : map'[k] = None
            /\ mem' = <<>>]_vars
    /\ [][\A t \in Threads :
            (LookupStep(t) /\ ~Present(Top(t).key)) =>
                invoked'[Top(t).key] = invoked[Top(t).key] + 1]_vars
    /\ [](Sequential =>
            \A k \in Keys :
                Present(k) =>
                    /\ invoked[k] = 1
                    /\ prev[k] = 1 => prev[k] + invoked[k] = 2)

\* Populate with key 1, reset, get key 1 again.
C6_Witness ==
    /\ Sequential
    /\ resets = 1
    /\ prev[1] = 1
    /\ Present(1)
    /\ invoked[1] = 1

\* C7: exactly-once destruction.  No payload's destructor runs twice, and
\* every payload whose memory has been reclaimed (by reset or by the drop of
\* the store) had its destructor run exactly once; the drop of the store
\* reclaims every payload.
C7_DropExactlyOnce ==
    /\ \A a \in 1..Len(mem) : mem[a].drops <= 1
    /\ freed \subseteq {1}
    /\ ~alive => mem = <<>>

\* The store was dropped after two threads raced to install one identity
\* (one payload displaced, one still in the directory).
C7_Witness ==
    /\ ~alive
    /\ wrapper = "Atomic"
    /\ resets = 0 /\ panics = 0
    /\ \E k \in Keys : invoked[k] = 2
    /\ freed = {1}

\* C8: identity by site.  A get whose producer has the identity of an
\* installed cell but other captured data returns the installed address,
\* whose value is the one produced from the installing producer's data; its
\* own producer is not invoked and nothing is installed.
C8_IdentityBySite ==
    [][\A t \in Threads :
          ( /\ LookupStep(t)
            /\ Present(Top(t).key)
            /\ Cell(Top(t).key).data # Top(t).data )
          => LET k == Top(t).key
                 n == Len(stack[t])
             IN /\ UNCHANGED <<map, mem, invoked>>
                /\ map[k] \in returned'[k]
                /\ n > 1 => stack'[t][n - 1].inner = map[k]
                /\ (k = 1 /\ ~misuse) => Cell(k).val = Cell(k).data]_vars

\* The producer of key 2 capturing 2 asked for key 1 (capturing 2) and got
\* the cell that the producer capturing 1 had installed.
C8_Witness ==
    \E t \in Threads :
        /\ stack[t] # <<>>
        /\ Top(t).pc = "resume"
        /\ Top(t).key = 2 /\ Top(t).data = 2
        /\ Present(1)
        /\ Top(t).inner = map[1]
        /\ Cell(1).data = 1 /\ Cell(1).val = 1
        /\ Top(t).pre[1] # None
        /\ invoked[1] = 1

\* C9: pointer stability and independence.  A get that installs a cell for
\* p leaves the address and the payload of every entry of another identity
\* unchanged, gives p an address no other entry has, and leaves p and every
\* identity installed before present.
C9_PointerStability ==
    [][\A t \in Threads :
          InsertStep(t) =>
              LET p == Top(t).key
              IN /\ map'[p] # None
                 /\ \A k \in Tokens \ {p} :
                       /\ map'[k] = map[k]
                       /\ map[k] # None =>
                             /\ mem'[map[k]] = mem[map[k]]
                             /\ map'[p] # map[k]]_vars

\* Key 2 was installed while key 1 was present: both are there, at
\* different addresses, key 1's payload untouched.
C9_Witness ==
    /\ Present(1) /\ Present(2)
    /\ map[1] < map[2]
    /\ Cell(1).drops = 0
    /\ Cell(1).val = Cell(1).data

C11_CellNeverReplaced ==
    [][(resets' = resets /\ alive') =>
          \A k \in Tokens : map[k] # None => map'[k] = map[k]]_vars

\* C12: teardown order.  In reset and in the drop of the store the destructor
\* of every cell of the directory has finished before the arena's memory is
\* reset or released: every payload is destructed when its memory is
\* reclaimed, and no destructor runs against reclaimed memory.
C12_TeardownOrder ==
    /\ late = 0
    /\ 0 \notin freed

\* A populated store was reset, and a populated store was dropped.
C12_Witness ==
    /\ resets = 1
    /\ ~alive
    /\ freed = {1}
    /\ prev[1] > 0
    /\ invoked[1] > 0

\* The producer of the i-th get call of thread t is executing: it has been
\* invoked and has not returned (it may be inside a get call it makes).
ProducerRuns(t, i) == stack[t][i].pc \in {"produce", "await", "resume"}

\* C13: no capability is held while a producer runs inside get.  A thread
\* holds the shared guard only during the lookup of its innermost get call
\* and the exclusive guard only during that call's insert_ptr, so while a
\* producer executes its own call holds neither; on LocalFnStore a running
\* producer therefore finds the RefCell unborrowed (no borrow conflict), and
\* on AtomicFnStore a thread is never blocked by a guard of its own.
C13_NoGuardWhileProducing ==
    \A t \in Threads :
        /\ t \in readers <=> (stack[t] # <<>> /\ Top(t).pc = "lookup")
        /\ writer = t <=> (stack[t] # <<>> /\ Top(t).pc = "insert")
        /\ \A i \in 1..Len(stack[t]) :
              ProducerRuns(t, i) /\ i = Len(stack[t]) =>
                  /\ t \notin readers
                  /\ writer # t
                  /\ wrapper = "Local" => (readers = {} /\ writer = None)

\* A get nested in a running producer holds the exclusive guard, which it
\* could take because the outer call kept none.
C13_Witness ==
    \E t \in Threads :
        /\ Len(stack[t]) = 2
        /\ ProducerRuns(t, 1)
        /\ Top(t).pc = "insert"
        /\ writer = t

\* ------------------------------------------------- AtomicFnStore, scheduled

\* A thread that can take a step of its get call takes it: a producer that
\* can return does, and write() takes the guard or parks.  A producer that is
\* again and again able to take the shared guard for the get it calls gets it
\* (parking_lot's RwLock lets no reader starve).
Fairness ==
    \A t \in Threads :
        /\ WF_vars(LookupHit(t))
        /\ WF_vars(LookupMiss(t))
        /\ WF_vars(Insert(t))
        /\ WF_vars(Park(t) \/ Finish(t))
        /\ SF_vars(Nest(t))

\* The threads only call get: no reset, no get_mut, no panic, no drop.
GetNext ==
    \/ \E t \in Threads, k \in Keys, d \in Data : Call(t, k, d, FALSE)
    \/ \E t \in Threads : LookupHit(t)
    \/ \E t \in Threads : LookupMiss(t)
    \/ \E t \in Threads : Nest(t)
    \/ \E t \in Threads : Park(t)
    \/ \E t \in Threads : Finish(t)
    \/ \E t \in Threads : Insert(t)

\* An AtomicFnStore shared by the threads.
FairInit == Init /\ wrapper = "Atomic"

FairSpec == FairInit /\ [][GetNext]_vars /\ Fairness

\* C14: deadlock freedom of AtomicFnStore.  With threads calling get
\* concurrently, producers that terminate and may nest get calls for other
\* identities, and a fair reader/writer lock, every get call eventually
\* returns (or unwinds); the threads are never all blocked on the lock.
C14_EveryGetReturns ==
    /\ \A t \in Threads : (stack[t] # <<>>) ~> (stack[t] = <<>>)
    /\ [](\A t \in Threads : stack[t] # <<>> =>
             \E u \in Threads :
                 /\ stack[u] # <<>>
                 /\ ENABLED (LookupHit(u) \/ LookupMiss(u) \/ Nest(u)
                                \/ Finish(u) \/ Insert(u)))

\* One thread is in insert_ptr under the exclusive guard while the other
\* thread's producer is about to call get and has to wait for the lock.
C14_Witness ==
    /\ wrapper = "Atomic"
    /\ writer = 2
    /\ stack[1] # <<>>
    /\ Top(1).pc = "produce"
    /\ Callee(Top(1).key, Top(1).data, Top(1).rec) # <<>>
    /\ ~ ENABLED Nest(1)

\* The producer of some call is executing in its own code.
GetProducerRuns(t) == stack[t] # <<>> /\ ProducerRuns(t, Len(stack[t]))

\* A step that allocates in the arena or installs a cell.
Installs == Len(mem') > Len(mem) \/ \E k \in Tokens : map'[k] \notin {map[k], None}

\* C15 as stated: in both get-or-compute paths (get_ptr then insert_ptr, and
\* get_or_insert_ptr) the producer is invoked before any write capability on
\* the directory is acquired, so no producer runs while its caller holds the
\* exclusive guard or an exclusive borrow of the store.
C15_ProducerBeforeWriteCapability ==
    /\ \A t \in Threads : GetProducerRuns(t) => writer # t
    /\ mutcall # <<>> => ~excl

\* C15, amended: on a miss the value is allocated and installed only after
\* the producer has returned, in both paths; on the get path the producer
\* runs before the exclusive guard is taken, while on the get_or_insert_ptr
\* path it runs inside the exclusive borrow, with its entry still vacant.
C15_MissOrdering ==
    /\ [](\A t \in Threads : GetProducerRuns(t) => writer # t)
    /\ [](mutcall # <<>> =>
             excl /\ Entry(map, TypeKeyOf(mutcall[1], mutcall[2], FALSE)) = None)
    /\ [][Installs =>
             \/ \E t \in Threads : InsertStep(t) /\ writer = t
             \/ mutcall # <<>> /\ mutcall' = <<>> /\ excl]_vars

\* get_mut's producer is running on a store that gets had filled before its
\* reset.
C15_Witness ==
    /\ mutcall # <<>>
    /\ excl
    /\ resets = 1
    /\ prev[2] > 0

\* The get call of thread t is a top-level call with a producer that does
\* not re-enter the store.
LeafCall(t) ==
    /\ Len(stack[t]) = 1
    /\ Callee(Top(t).key, Top(t).data, Top(t).rec) = <<>>

\* What get_mut(p) does in the current state, were it called instead of the
\* get(p) whose lookup or insert thread t is taking.
AsGetMut(t) ==
    LET f == Top(t)
        tok == TypeKeyOf(f.key, f.data, f.rec)
        payload == [val |-> f.data, data |-> f.data, drops |-> 0]
        mp == MapAfterGetOrInsert(map, mem, tok)
    IN [hit |-> Entry(map, tok) # None,
        map |-> mp,
        mem |-> MemAfterGetOrInsert(map, mem, tok, payload),
        ptr |-> mp[tok]]

\* What get(p) does in the current state, were it called instead of the
\* get_mut(p) that is running.
AsGet ==
    LET tok == TypeKeyOf(mutcall[1], mutcall[2], FALSE)
        payload == [val |-> mutcall[2], data |-> mutcall[2], drops |-> 0]
    IN [map |-> MapAfterInsert(map, mem, tok),
        mem |-> MemAfterInsert(map, mem, tok, payload),
        ptr |-> BumpAlloc(mem)]

\* C16: get_mut is get with exclusive access.  On one thread, with producers
\* that do not re-enter the store, every step of a get(p) does what
\* get_mut(p) does in that state and the reverse: same returned address, same
\* producer invocations, same directory and arena; and get_mut(p) on a store
\* where p is present returns the existing cell's address without invoking
\* the producer.
C16_GetMutIsGet ==
    /\ [][wrapper = "Local" /\ ~misuse /\ stack[1] # <<>> /\ LeafCall(1) =>
            /\ LookupStep(1) =>
                  IF AsGetMut(1).hit
                  THEN /\ stack'[1] = <<>>
                       /\ returned' = [returned EXCEPT ![Top(1).key] =
                                                     @ \cup {AsGetMut(1).ptr}]
                       /\ UNCHANGED <<map, mem, invoked>>
                  ELSE /\ Top(1)' = [Top(1) EXCEPT !.pc = "produce"]
                       /\ invoked' = Inc(invoked, Top(1).key)
                       /\ UNCHANGED <<map, mem, returned>>
            /\ InsertStep(1) =>
                  /\ map' = AsGetMut(1).map
                  /\ mem' = AsGetMut(1).mem
                  /\ returned' = [returned EXCEPT ![Top(1).key] =
                                                @ \cup {AsGetMut(1).ptr}]
                  /\ UNCHANGED invoked]_vars
    /\ [][wrapper = "Local" /\ ~misuse =>
            /\ (mutcall = <<>> /\ mutcall' # <<>>) =>
                  /\ RawGetPtr(map, TypeKeyOf(mutcall'[1], mutcall'[2], FALSE)) = None
                  /\ invoked' = Inc(invoked, mutcall'[1])
                  /\ UNCHANGED <<map, mem, returned>>
            /\ (mutcall # <<>> /\ mutcall' = <<>> /\ panics' = panics) =>
                  /\ map' = AsGet.map
                  /\ mem' = AsGet.mem
                  /\ returned' = [returned EXCEPT ![mutcall[1]] =
                                                @ \cup {AsGet.ptr}]
                  /\ UNCHANGED invoked]_vars
    /\ [](wrapper = "Local" /\ ~misuse /\ alive /\ Idle =>
             \A k \in Keys, d \in Data :
                 Callee(k, d, FALSE) = <<>> /\ Present(TypeKeyOf(k, d, FALSE)) =>
                     /\ ~ ENABLED (GetMut(k, d) /\ invoked' # invoked)
                     /\ ~ ENABLED (GetMut(k, d) /\ mutcall' # <<>>)
                     /\ ENABLED (GetMut(k, d) /\ returned' =
                            [returned EXCEPT ![k] = @ \cup
                                {RawGetPtr(map, TypeKeyOf(k, d, FALSE))}]))

\* get_mut(p) is running its producer on a store where p is absent, after a
\* reset of a store in which p had been installed by one invocation.
C16_Witness ==
    /\ wrapper = "Local"
    /\ ~misuse
    /\ mutcall = <<1, MaxData>>
    /\ prev[1] = 1
    /\ invoked[1] = 1
    /\ ~Present(1)

\* The threads with a get call for key k whose lookup missed and whose
\* install has not completed.
InFlight(k) ==
    {t \in Threads : \E i \in 1..Len(stack[t]) :
        stack[t][i].key = k /\ stack[t][i].pc # "lookup"}

\* C17: bounded recomputation under contention on AtomicFnStore.  With no
\* panic, until the first install of an identity completes its producer has
\* been invoked exactly once per call whose lookup missed (at most once per
\* thread); once installed it has been invoked at least once and at most
\* once per thread, and until the next reset no invocation is added: a get
\* whose lookup runs after an install never invokes its producer.
C17_BoundedRecomputation ==
    /\ [](wrapper = "Atomic" /\ panics = 0 /\ alive =>
             \A k \in Keys :
                 /\ ~Present(TypeKeyOf(k, 1, FALSE)) =>
                       invoked[k] = Cardinality(InFlight(k))
                           + (IF mutcall # <<>> /\ mutcall[1] = k THEN 1 ELSE 0)
                 /\ Present(TypeKeyOf(k, 1, FALSE)) =>
                       invoked[k] >= 1 /\ invoked[k] <= MaxThreads)
    /\ [][wrapper = "Atomic" =>
             \A k \in Keys :
                 Present(TypeKeyOf(k, 1, FALSE)) /\ resets' = resets =>
                     invoked'[k] = invoked[k]]_vars
    /\ [][wrapper = "Atomic" =>
             \A t \in Threads :
                 (LookupStep(t) /\ Present(TypeKeyOf(Top(t).key, Top(t).data, FALSE))) =>
                     /\ invoked' = invoked
                     /\ Len(stack'[t]) < Len(stack[t])]_vars

\* Every thread has invoked the producer of identity 1, the identity is
\* installed, and a later get for it is at its lookup.
C17_Witness ==
    /\ wrapper = "Atomic"
    /\ panics = 0
    /\ invoked[1] = MaxThreads
    /\ Present(1)
    /\ \E t \in Threads :
          /\ stack[t] # <<>>
          /\ Top(t).pc = "lookup"
          /\ Top(t).key = 1

\* The payloads that were moved into the arena and are not destructed.
Live == {a \in 1..Len(mem) : mem[a].drops = 0}

\* C18: cells and live payloads are in bijection.  Between raw-store
\* operations the payloads moved into the arena and not yet destructed are
\* exactly the payloads the directory's cells reference, each referenced by
\* one cell: no payload is live without a cell and no cell references a
\* destructed payload.
C18_CellsAndLivePayloads ==
    /\ Live = Cells(map)
    /\ \A k1, k2 \in Tokens :
          (map[k1] # None /\ map[k1] = map[k2]) => k1 = k2

\* Two identities are installed and a displaced payload has been destructed.
C18_Witness ==
    /\ Cardinality(Cells(map)) = 2
    /\ Len(mem) = 3
    /\ \E a \in 1..Len(mem) : mem[a].drops = 1

====
